---- MODULE Spec2Model ----
(***************************************************************************)
(* Model of battery_trading_strategy.py: the BatteryTrading class.         *)
(*                                                                         *)
(* Timestamps are whole hours counted from EpochYear-01-01T00:00.          *)
(* Energy amounts and prices are integers.  The efficiency is the          *)
(* fraction efficiency / EffDen, so every amount of money (profit_kwh,     *)
(* profit, amount_eur, monthly_profit, total_profit, profit_min when it is *)
(* compared) is held multiplied by EffDen, which keeps the arithmetic of   *)
(* the source exact.  capacity_cycles is held multiplied by capacity.      *)
(***************************************************************************)
EXTENDS Integers, Sequences, FiniteSets, TLC

\* ---- calendar of pandas Timestamps ------------------------------------
HoursPerDay == 24
EpochYear == 2023

\* ---- bounds of the inputs ------------------------------------------------
EffDen == 2              \* efficiency ranges over 1/EffDen .. EffDen/EffDen
MaxCapacity == 2         \* capacity in 1..MaxCapacity
MaxSpeed == 2            \* speed in 0..MaxSpeed
CalMaxPrice == 3         \* prices of the several-day series and the short day
DayMaxPrice == 5         \* prices of the long day
Taxes == {0, 1}
ProfitMins == {-1, 0, 1}
\* Jan 1 and Feb 1 of the first year, Jan 1 of the next one, two hours each
CalDays == {0, 31, 365}
CalHours == {10, 11}
\* one day of four consecutive hours, one day of six
ShortDayHours == {0, 1, 2, 3}
DayHours == {0, 1, 2, 3, 4, 5}

None == -1               \* Python's None for last_sell_time

VARIABLES
    capacity, speed, efficiency, profit_min, tax_fixed_returnable,
    data,              \* self.data: Date -> Price
    balance, cycles, capacity_cycles, total_profit, monthly_profit,
    transactions, month_current,
    buy_log, last_sell_time,      \* locals of run()
    date, best_trades,            \* the two for loops of run()
    pc

vars == <<capacity, speed, efficiency, profit_min, tax_fixed_returnable, data,
          balance, cycles, capacity_cycles, total_profit, monthly_profit,
          transactions, month_current, buy_log, last_sell_time, date,
          best_trades, pc>>

config == <<capacity, speed, efficiency, profit_min, tax_fixed_returnable, data>>

\* ---- helpers -------------------------------------------------------------
min2(a, b) == IF a <= b THEN a ELSE b

min3(a, b, c) == min2(a, min2(b, c))

SetMin(S) == CHOOSE x \in S : \A y \in S : x <= y

RECURSIVE SortedSeq(_)
SortedSeq(S) == IF S = {} THEN <<>>
                ELSE LET m == SetMin(S) IN <<m>> \o SortedSeq(S \ {m})

\* ---- pandas Timestamp.month / .year, resample('D') ----------------------
IsLeap(y) == (y % 4 = 0 /\ y % 100 # 0) \/ y % 400 = 0

DaysInYear(y) == IF IsLeap(y) THEN 366 ELSE 365

DaysInMonth(y, m) ==
    IF m = 2 THEN (IF IsLeap(y) THEN 29 ELSE 28)
    ELSE IF m \in {4, 6, 9, 11} THEN 30 ELSE 31

DayOf(t) == t \div HoursPerDay

RECURSIVE YearFrom(_, _)
YearFrom(y, d) == IF d >= DaysInYear(y) THEN YearFrom(y + 1, d - DaysInYear(y))
                  ELSE y

RECURSIVE DayInYearFrom(_, _)
DayInYearFrom(y, d) ==
    IF d >= DaysInYear(y) THEN DayInYearFrom(y + 1, d - DaysInYear(y)) ELSE d

RECURSIVE MonthFrom(_, _, _)
MonthFrom(y, m, d) ==
    IF d >= DaysInMonth(y, m) THEN MonthFrom(y, m + 1, d - DaysInMonth(y, m))
    ELSE m

YearOf(t) == YearFrom(EpochYear, DayOf(t))

MonthOf(t) == MonthFrom(YearOf(t), 1, DayInYearFrom(EpochYear, DayOf(t)))

\* ---- __init__: read_csv, set_index('Date'), drop_duplicates() ------------
\* raw: hour -> price, the rows of the file in ascending date order.
\* After set_index the frame has the single column Price, so drop_duplicates
\* keeps the first row of every distinct Price and drops the later ones.
drop_duplicates(raw) ==
    LET kept == {t \in DOMAIN raw : \A u \in DOMAIN raw : u < t => raw[u] # raw[t]}
    IN [t \in kept |-> raw[t]]

CalSlots == {d * HoursPerDay + h : d \in CalDays, h \in CalHours}

\* the files hold a row for every hour of their days
CalSeries == {drop_duplicates(raw) : raw \in [CalSlots -> 0..CalMaxPrice]}

ShortDaySeries == {drop_duplicates(raw) :
                     raw \in [ShortDayHours -> 0..CalMaxPrice]}

DaySeries == {drop_duplicates(raw) : raw \in [DayHours -> 0..DayMaxPrice]}

\* ---- find_best_trade -----------------------------------------------------
\* day_data of resample('D'): the rows of one calendar day
day_data(d) == [t \in {u \in DOMAIN data : DayOf(u) = d} |-> data[t]]

\* faulty variant: the loss of the battery is left out
profit_kwh_no_loss(buy_price, sell_price) ==
    (sell_price + tax_fixed_returnable) * EffDen
        - (buy_price + tax_fixed_returnable) * EffDen

\* faulty variant: the efficiency is applied to the price but not to the tax
profit_kwh_tax_in_full(buy_price, sell_price) ==
    sell_price * efficiency + tax_fixed_returnable * EffDen
        - (buy_price + tax_fixed_returnable) * EffDen

profit_kwh(buy_price, sell_price) ==
    (sell_price + tax_fixed_returnable) * efficiency
        - (buy_price + tax_fixed_returnable) * EffDen

\* the two nested iterrows() loops, in their order of appending
RECURSIVE Candidates(_, _, _)
Candidates(dd, ts, k) ==
    LET n == Len(ts)
        b == ts[(k \div n) + 1]
        s == ts[(k % n) + 1]
        p == profit_kwh(dd[b], dd[s])
    IN IF k >= n * n THEN <<>>
       ELSE (IF s > b /\ p >= profit_min * EffDen
             THEN <<[buy |-> b, sell |-> s, profit |-> p]>> ELSE <<>>)
            \o Candidates(dd, ts, k + 1)

\* list.sort(key=profit, reverse=True) is stable: equal profits keep their order
RECURSIVE InsertByProfit(_, _)
\* faulty variant: a pair goes in front of the pairs of equal profit
InsertByProfit_before_equal(x, sorted) ==
    IF sorted = <<>> THEN <<x>>
    ELSE IF Head(sorted).profit > x.profit
         THEN <<Head(sorted)>> \o InsertByProfit(x, Tail(sorted))
         ELSE <<x>> \o sorted

InsertByProfit(x, sorted) ==
    IF sorted = <<>> THEN <<x>>
    ELSE IF Head(sorted).profit >= x.profit
         THEN <<Head(sorted)>> \o InsertByProfit(x, Tail(sorted))
         ELSE <<x>> \o sorted

RECURSIVE SortByProfit(_, _)
\* faulty variant: the candidates stay in their order of enumeration
SortByProfit_unsorted(todo, sorted) == todo

SortByProfit(todo, sorted) ==
    IF todo = <<>> THEN sorted
    ELSE SortByProfit(Tail(todo), InsertByProfit(Head(todo), sorted))

\* faulty variant: only the sell timestamp is looked up in used_timestamps
TimestampFree_sell_only(tr, used) == tr.sell \notin used

\* faulty variant: only the buy timestamp is looked up in used_timestamps
TimestampFree_buy_only(tr, used) == tr.buy \notin used

TimestampFree(tr, used) == tr.buy \notin used /\ tr.sell \notin used

RECURSIVE Grouped(_, _)
Grouped(trades, used) ==
    IF trades = <<>> THEN <<>>
    ELSE LET tr == Head(trades) IN
         IF TimestampFree(tr, used)
         THEN <<tr>> \o Grouped(Tail(trades), used \cup {tr.buy, tr.sell})
         ELSE Grouped(Tail(trades), used)

find_best_trade(dd) ==
    Grouped(SortByProfit(Candidates(dd, SortedSeq(DOMAIN dd), 0), <<>>), {})

\* ---- execute_trade, buy_energy, sell_energy ------------------------------
\* faulty variant: the speed is left out of the minimum
amount_to_buy_no_speed == capacity - balance

\* execute_trade: amount_kwh = min(self.speed, self.capacity - self.balance)
amount_to_buy == min2(speed, capacity - balance)

balance_after_buy(amount_kwh) == balance + amount_kwh

cycles_after_buy == cycles + 1

\* faulty variant: a whole capacity cycle is counted for every buy
capacity_cycles_full_cycle(amount_kwh) == capacity_cycles + capacity

\* capacity_cycles += amount_kwh / capacity, in units of 1/capacity
capacity_cycles_after_buy(amount_kwh) == capacity_cycles + amount_kwh

\* faulty variant: the cost of the buy is booked as a loss
buy_record_cost_booked(timestamp, amount_kwh, price) ==
    [date |-> timestamp, action |-> "buy", amount_kwh |-> amount_kwh,
     amount_eur |-> amount_kwh * price * EffDen, price |-> price,
     balance |-> balance + amount_kwh, cycles |-> cycles + 1,
     capacity_cycles |-> capacity_cycles + amount_kwh,
     profit |-> 0 - amount_kwh * price * EffDen,
     month_profit |-> monthly_profit - amount_kwh * price * EffDen,
     total_profit |-> total_profit - amount_kwh * price * EffDen]

buy_record(timestamp, amount_kwh, price) ==
    [date |-> timestamp, action |-> "buy", amount_kwh |-> amount_kwh,
     amount_eur |-> amount_kwh * price * EffDen, price |-> price,
     balance |-> balance_after_buy(amount_kwh), cycles |-> cycles_after_buy,
     capacity_cycles |-> capacity_cycles_after_buy(amount_kwh),
     profit |-> 0, month_profit |-> monthly_profit,
     total_profit |-> total_profit]

buy_energy(timestamp, amount_kwh, price) ==
    /\ balance' = balance_after_buy(amount_kwh)
    /\ cycles' = cycles_after_buy
    /\ capacity_cycles' = capacity_cycles_after_buy(amount_kwh)
    /\ buy_log' = Append(buy_log, [time |-> timestamp, amount |-> amount_kwh,
                                   price |-> price])
    /\ transactions' = Append(transactions,
                              buy_record(timestamp, amount_kwh, price))
    /\ UNCHANGED <<monthly_profit, total_profit, month_current>>

\* faulty variant: the amount of the lot is left out of the minimum
amount_to_sell_ignores_lot(buy_amount) == min2(speed, balance)

\* faulty variant: the loss of the battery is taken off the amount that is sold
amount_to_sell_after_losses(buy_amount) ==
    min3(speed, balance, (buy_amount * efficiency) \div EffDen)

\* amount_kwh = min(self.speed, self.balance, buy_amount)
amount_to_sell(buy_amount) == min3(speed, balance, buy_amount)

\* faulty variant: the tax is not returned on the sell
sell_profit_tax_kept(amount_kwh, price, buy_price) ==
    amount_kwh * price * efficiency
        - amount_kwh * (buy_price + tax_fixed_returnable) * EffDen

sell_profit(amount_kwh, price, buy_price) ==
    amount_kwh * (price + tax_fixed_returnable) * efficiency
        - amount_kwh * (buy_price + tax_fixed_returnable) * EffDen

\* if self.month_current != timestamp.month: the month changes, the profit is reset
month_changes(timestamp) == month_current # MonthOf(timestamp)

\* faulty variant: the monthly profit is never reset
monthly_profit_never_reset(timestamp) == monthly_profit

monthly_profit_before_add(timestamp) ==
    IF month_changes(timestamp) THEN 0 ELSE monthly_profit

\* faulty variant: the sold amount is added
balance_after_sell_added(amount_kwh) == balance + amount_kwh

balance_after_sell(amount_kwh) == balance - amount_kwh

\* faulty variant: the used lot stays in the log
remove_nothing(log, x) == log

\* list.remove(x): drops the first element equal to x
RECURSIVE remove(_, _)
remove(log, x) ==
    IF log = <<>> THEN <<>>
    ELSE IF Head(log) = x THEN Tail(log)
         ELSE <<Head(log)>> \o remove(Tail(log), x)

\* faulty variant: the balance is not looked at
sell_matches_any_lot == buy_log # <<>>

\* the for loop reaches its body's if with the first lot; it breaks after one sell
sell_matches == buy_log # <<>> /\ balance > 0

sell_energy(timestamp, price) ==
    IF sell_matches
    THEN LET lot == Head(buy_log)
             amount_kwh == amount_to_sell(lot.amount)
             profit == sell_profit(amount_kwh, price, lot.price)
             month_profit == monthly_profit_before_add(timestamp) + profit
         IN /\ month_current' = IF month_changes(timestamp)
                                THEN MonthOf(timestamp) ELSE month_current
            /\ total_profit' = total_profit + profit
            /\ monthly_profit' = month_profit
            /\ balance' = balance_after_sell(amount_kwh)
            /\ buy_log' = remove(buy_log, lot)
            /\ transactions' = Append(transactions,
                 [date |-> timestamp, action |-> "sell",
                  amount_kwh |-> amount_kwh,
                  amount_eur |-> amount_kwh * price * efficiency,
                  price |-> price,
                  balance |-> balance_after_sell(amount_kwh),
                  cycles |-> cycles, capacity_cycles |-> capacity_cycles,
                  profit |-> profit, month_profit |-> month_profit,
                  total_profit |-> total_profit + profit])
            /\ UNCHANGED <<cycles, capacity_cycles>>
    ELSE UNCHANGED <<month_current, total_profit, monthly_profit, balance,
                     buy_log, transactions, cycles, capacity_cycles>>

\* ---- run -----------------------------------------------------------------
\* the days of resample('D') that hold rows, after the day the loop is at
\* (a day without rows gives find_best_trade nothing to enumerate)
days_left == {DayOf(t) : t \in DOMAIN data} \ (0..date)

\* if last_sell_time is None or buy_time > last_sell_time
may_execute(buy_time) == last_sell_time = None \/ buy_time > last_sell_time

after_trade(rest) == IF rest = <<>> THEN "day" ELSE "trades"

\* the state __init__ and the first lines of run() leave
InitState ==
    /\ balance = 0
    /\ cycles = 0
    /\ capacity_cycles = 0
    /\ total_profit = 0
    /\ monthly_profit = 0
    /\ transactions = <<>>
    /\ month_current = 0
    /\ buy_log = <<>>
    /\ last_sell_time = None
    /\ date = -1
    /\ best_trades = <<>>
    /\ pc = "day"

\* any battery and grid, over a series of several days or of one short day
Init ==
    /\ capacity \in 1..MaxCapacity
    /\ speed \in 0..MaxSpeed
    /\ efficiency \in 1..EffDen
    /\ profit_min \in ProfitMins
    /\ tax_fixed_returnable \in Taxes
    /\ data \in CalSeries \cup ShortDaySeries
    /\ InitState

\* a battery that fills in one hour and an untaxed grid, over one long day
InitDay ==
    /\ capacity = MaxCapacity
    /\ speed = MaxCapacity
    /\ efficiency \in 1..EffDen
    /\ profit_min \in ProfitMins
    /\ tax_fixed_returnable = 0
    /\ data \in DaySeries
    /\ InitState

\* for date, day_data in resample('D'): best_trades = find_best_trade(day_data)
NextDay ==
    /\ pc = "day"
    /\ days_left # {}
    /\ date' = SetMin(days_left)
    /\ best_trades' = find_best_trade(day_data(date'))
    /\ pc' = after_trade(best_trades')
    /\ UNCHANGED <<config, balance, cycles, capacity_cycles, total_profit,
                   monthly_profit, transactions, month_current, buy_log,
                   last_sell_time>>

\* the pair is not executed; last_sell_time = sell_time all the same
SkipTrade ==
    /\ pc = "trades"
    /\ ~may_execute(Head(best_trades).buy)
    /\ last_sell_time' = Head(best_trades).sell
    /\ best_trades' = Tail(best_trades)
    /\ pc' = after_trade(best_trades')
    /\ UNCHANGED <<config, balance, cycles, capacity_cycles, total_profit,
                   monthly_profit, transactions, month_current, buy_log, date>>

\* execute_trade up to and including buy_energy
ExecuteTradeBuy ==
    /\ pc = "trades"
    /\ may_execute(Head(best_trades).buy)
    /\ buy_energy(Head(best_trades).buy, amount_to_buy,
                  data[Head(best_trades).buy])
    /\ pc' = "sell"
    /\ UNCHANGED <<config, last_sell_time, date, best_trades>>

\* sell_energy of execute_trade, then last_sell_time = sell_time
ExecuteTradeSell ==
    /\ pc = "sell"
    /\ sell_energy(Head(best_trades).sell, data[Head(best_trades).sell])
    /\ last_sell_time' = Head(best_trades).sell
    /\ best_trades' = Tail(best_trades)
    /\ pc' = after_trade(best_trades')
    /\ UNCHANGED <<config, date>>

\* the days are exhausted: save_results
SaveResults ==
    /\ pc = "day"
    /\ days_left = {}
    /\ pc' = "done"
    /\ UNCHANGED <<config, balance, cycles, capacity_cycles, total_profit,
                   monthly_profit, transactions, month_current, buy_log,
                   last_sell_time, date, best_trades>>

Next == NextDay \/ SkipTrade \/ ExecuteTradeBuy \/ ExecuteTradeSell \/ SaveResults

Spec == Init /\ [][Next]_vars

SpecDay == InitDay /\ [][Next]_vars

\* find_best_trade and the loop of run() over any frame of one day, equal
\* prices included: the frame as read_csv gives it, which a caller of
\* find_best_trade may pass (run() itself passes what drop_duplicates left)
SelectorFrames == [ShortDayHours -> 0..CalMaxPrice]

InitSelector ==
    /\ capacity \in 1..MaxCapacity
    /\ speed \in 0..MaxSpeed
    /\ efficiency \in 1..EffDen
    /\ profit_min \in ProfitMins
    /\ tax_fixed_returnable \in Taxes
    /\ data \in SelectorFrames
    /\ InitState

SpecSelector == InitSelector /\ [][Next]_vars

\* ---- buy_energy and sell_energy called directly --------------------------
\* run() calls sell_energy only right after the buy of the same pair; the two
\* methods themselves take any arguments in any order
MaxBuys == 2             \* buy_energy is called at most MaxBuys times
EnginePrices == {0, 1}
EngineSellTimes == {10, 754}      \* Jan 1 and Feb 1 at 10:00

InitEngine ==
    /\ capacity = MaxCapacity
    /\ speed \in 0..MaxSpeed
    /\ efficiency \in 1..EffDen
    /\ profit_min = 0
    /\ tax_fixed_returnable \in Taxes
    /\ data = <<>>
    /\ balance = 0
    /\ cycles = 0
    /\ capacity_cycles = 0
    /\ total_profit = 0
    /\ monthly_profit = 0
    /\ transactions = <<>>
    /\ month_current = 0
    /\ buy_log = <<>>
    /\ last_sell_time = None
    /\ date = -1
    /\ best_trades = <<>>
    /\ pc = "engine"

\* buy_energy(timestamp, amount_kwh, price); the k-th buy is at hour k
CallBuyEnergy ==
    /\ pc = "engine"
    /\ cycles < MaxBuys
    /\ \E amount_kwh \in 0..MaxSpeed, price \in EnginePrices :
          buy_energy(cycles, amount_kwh, price)
    /\ UNCHANGED <<config, last_sell_time, date, best_trades, pc>>

\* sell_energy(timestamp, price), at a later time than the sell call before;
\* last_sell_time keeps the time of the call
CallSellEnergy ==
    /\ pc = "engine"
    /\ \E timestamp \in EngineSellTimes, price \in EnginePrices :
          /\ timestamp > last_sell_time
          /\ sell_energy(timestamp, price)
          /\ last_sell_time' = timestamp
    /\ UNCHANGED <<config, date, best_trades, pc>>

NextEngine == CallBuyEnergy \/ CallSellEnergy

SpecEngine == InitEngine /\ [][NextEngine]_vars

\* ======================= properties ======================================
valid_configuration == capacity > 0 /\ 0 < speed /\ speed <= capacity

Records == 1..Len(transactions)

last_record == transactions[Len(transactions)]

\* a buy_energy step, and a sell_energy step that appends a record
BuyStep == pc = "trades" /\ pc' = "sell"

SellStep == pc = "sell" /\ pc' # "sell"

SellRecorded == SellStep /\ Len(transactions') = Len(transactions) + 1

\* C1: under a valid configuration the balance, and the balance field of every
\* ledger record, stays within 0 .. capacity
C1_BalanceWithinCapacity ==
    valid_configuration =>
        /\ 0 <= balance /\ balance <= capacity
        /\ \A i \in Records :
              0 <= transactions[i].balance /\ transactions[i].balance <= capacity

\* a valid battery is full again after an earlier buy and sell
C1_Witness ==
    /\ valid_configuration
    /\ Len(transactions) = 3
    /\ transactions[2].balance = 0
    /\ balance = capacity

\* C2: a buy moves at most speed; a sell moves at most speed and at most the
\* balance held before it
C2_AmountWithinSpeed ==
    [][/\ BuyStep => last_record'.amount_kwh <= speed
       /\ SellRecorded => /\ last_record'.amount_kwh <= speed
                          /\ last_record'.amount_kwh <= balance]_vars

\* a buy limited by the room left (below speed) and its sell are in the ledger
C2_Witness ==
    /\ Len(transactions) = 2
    /\ transactions[1].action = "buy"
    /\ transactions[1].amount_kwh < speed
    /\ transactions[2].action = "sell"
    /\ transactions[2].amount_kwh = transactions[1].amount_kwh

RECURSIVE SumAmounts(_)
SumAmounts(log) ==
    IF log = <<>> THEN 0 ELSE Head(log).amount + SumAmounts(Tail(log))

\* C3: the amounts of the pending lots of buy_log add up to the balance
C3_LotsSumToBalance == SumAmounts(buy_log) = balance

\* a lot is pending after an earlier pair was bought and sold
C3_Witness ==
    /\ Len(transactions) = 3
    /\ transactions[2].action = "sell"
    /\ buy_log # <<>>
    /\ balance > 0

\* C4: a pair is executed only if its buy timestamp is strictly after the sell
\* timestamp of the most recently executed pair: every buy record but the first
\* is later than the record before it, the sell of the pair executed last
C4_BuyAfterLastExecutedSell ==
    \A i \in Records :
        (i > 1 /\ transactions[i].action = "buy") =>
            /\ transactions[i - 1].action = "sell"
            /\ transactions[i].date > transactions[i - 1].date

\* C5 as claimed: under every valid configuration total_profit never decreases
\* from one ledger record to the next
C5_TotalProfitMonotone ==
    valid_configuration =>
        \A i \in Records :
            i > 1 => transactions[i].total_profit >= transactions[i - 1].total_profit

\* C5 amended: under a valid configuration with profit_min >= 0 total_profit
\* never decreases from one ledger record to the next
C5_TotalProfitMonotoneNonNegMin ==
    (valid_configuration /\ profit_min >= 0) =>
        \A i \in Records :
            i > 1 => transactions[i].total_profit >= transactions[i - 1].total_profit

\* total_profit has grown twice under profit_min >= 0
C5_Witness ==
    /\ valid_configuration
    /\ profit_min >= 0
    /\ Len(transactions) = 4
    /\ transactions[2].total_profit > 0
    /\ transactions[4].total_profit > transactions[2].total_profit

SellRecords == {i \in Records : transactions[i].action = "sell"}

\* the month of the previous sell, 0 when there was none
month_of_previous_sell ==
    IF SellRecords = {} THEN 0
    ELSE MonthOf(transactions[CHOOSE i \in SellRecords :
                                \A j \in SellRecords : j <= i].date)

RECURSIVE SumProfits(_)
SumProfits(I) ==
    IF I = {} THEN 0
    ELSE LET i == CHOOSE j \in I : TRUE
         IN transactions[i].profit + SumProfits(I \ {i})

same_calendar_month(t, u) == YearOf(t) = YearOf(u) /\ MonthOf(t) = MonthOf(u)

\* C7: month_profit of a sell record is the sum of the profits of the sell
\* records up to it that fall in its calendar month (year and month)
C7_MonthProfitIsProfitOfMonth ==
    \A i \in SellRecords :
        transactions[i].month_profit =
            SumProfits({j \in SellRecords :
                          /\ j <= i
                          /\ same_calendar_month(transactions[j].date,
                                                 transactions[i].date)})

\* C8: a buy adds 1 to cycles and amount_kwh / capacity to capacity_cycles
\* (held times capacity); a sell, recorded or not, changes neither
C8_CycleCounters ==
    [][/\ BuyStep =>
            /\ cycles' = cycles + 1
            /\ capacity_cycles' = capacity_cycles + last_record'.amount_kwh
            /\ last_record'.cycles = cycles'
            /\ last_record'.capacity_cycles = capacity_cycles'
       /\ SellStep => /\ cycles' = cycles
                      /\ capacity_cycles' = capacity_cycles
       /\ SellRecorded => /\ last_record'.cycles = cycles
                          /\ last_record'.capacity_cycles = capacity_cycles]_vars

\* two buys of less than the capacity and their sells
C8_Witness ==
    /\ Len(transactions) = 4
    /\ cycles = 2
    /\ speed < capacity
    /\ capacity_cycles = 2 * speed

\* C9: a buy leaves total_profit, monthly_profit and the tracked month as they
\* were; its record has profit 0 and carries the two profits unchanged
C9_BuyKeepsProfits ==
    [][BuyStep =>
         /\ total_profit' = total_profit
         /\ monthly_profit' = monthly_profit
         /\ month_current' = month_current
         /\ last_record'.action = "buy"
         /\ last_record'.profit = 0
         /\ last_record'.month_profit = monthly_profit
         /\ last_record'.total_profit = total_profit]_vars

\* a buy recorded while the profits are not zero
C9_Witness ==
    /\ Len(transactions) = 3
    /\ transactions[3].action = "buy"
    /\ transactions[3].total_profit # 0
    /\ transactions[3].month_profit # 0

Timestamps(trades) ==
    {trades[i].buy : i \in 1..Len(trades)} \cup {trades[i].sell : i \in 1..Len(trades)}

\* C10: no timestamp occurs twice among the buy and sell timestamps of the list
\* find_best_trade returns for a day
C10_NonOverlapping ==
    [][(pc = "day" /\ date' # date) =>
          Cardinality(Timestamps(best_trades')) = 2 * Len(best_trades')]_vars

\* three pairs are returned for a day of six hours
C10_Witness == pc = "trades" /\ Len(best_trades) = 3

\* the step of run() that takes the list find_best_trade returns for a day
ReturnStep == pc = "day" /\ date' # date

\* C11: every pair find_best_trade returns has its two timestamps among the
\* rows of the day, the sell later than the buy, as unit profit
\* (sell_price + tax) * efficiency - (buy_price + tax), and a unit profit of at
\* least profit_min
C11_ReturnedPairsQualify ==
    [][ReturnStep =>
         \A i \in 1..Len(best_trades') :
            LET tr == best_trades'[i] IN
            /\ tr.buy \in DOMAIN data /\ DayOf(tr.buy) = date'
            /\ tr.sell \in DOMAIN data /\ DayOf(tr.sell) = date'
            /\ tr.sell > tr.buy
            /\ tr.profit = (data[tr.sell] + tax_fixed_returnable) * efficiency
                             - (data[tr.buy] + tax_fixed_returnable) * EffDen
            /\ tr.profit >= profit_min * EffDen]_vars

\* two pairs are returned under a tax and a lossy battery, the second one with
\* exactly the minimum profit
C11_Witness ==
    /\ pc = "trades"
    /\ transactions = <<>>
    /\ Len(best_trades) = 2
    /\ tax_fixed_returnable > 0
    /\ efficiency < EffDen
    /\ best_trades[2].profit = profit_min * EffDen

\* C12: the list find_best_trade returns is in descending order of unit profit,
\* and pairs of equal unit profit are in the order of enumeration (buy
\* timestamp ascending, then sell timestamp ascending)
C12_OrderedByProfitThenTime ==
    [][ReturnStep =>
         \A i, j \in 1..Len(best_trades') :
            i < j =>
               LET a == best_trades'[i]
                   b == best_trades'[j]
               IN /\ a.profit >= b.profit
                  /\ a.profit = b.profit =>
                        \/ a.buy < b.buy
                        \/ a.buy = b.buy /\ a.sell < b.sell]_vars

\* three pairs are returned, the last two of equal unit profit
C12_Witness ==
    /\ pc = "trades"
    /\ transactions = <<>>
    /\ Len(best_trades) = 3
    /\ best_trades[1].profit > best_trades[2].profit
    /\ best_trades[2].profit = best_trades[3].profit

\* every row of the frame has the same price
all_equal_prices == \A t, u \in DOMAIN data : data[t] = data[u]

the_price == data[SetMin(DOMAIN data)]

\* the unit profit of a pair of equal prices, (p + tax) * (efficiency - 1), is
\* below profit_min
equal_pair_below_minimum ==
    (the_price + tax_fixed_returnable) * (efficiency - EffDen)
        < profit_min * EffDen

C14_OneActionPerHour ==
    \A i, j \in Records : i # j => transactions[i].date # transactions[j].date

\* two pairs of one day are in the ledger, the second one inside the hours of
\* the first
C14_Witness ==
    /\ Len(transactions) = 4
    /\ transactions[1].date < transactions[3].date
    /\ transactions[4].date < transactions[2].date

\* a call of sell_energy made directly
SellCall == pc = "engine" /\ last_sell_time' # last_sell_time

\* C15: a sell call that finds a lot and a positive balance matches
\* min(speed, balance, amount of the oldest lot), takes the profit of that amount
\* between its price and the oldest lot's price, lowers the balance by it, drops
\* the oldest lot and no other, and appends one sell record
C15_SellConsumesOldestLot ==
    [][(SellCall /\ balance > 0 /\ buy_log # <<>>) =>
        LET lot == Head(buy_log)
            r == last_record'
            m == r.amount_kwh
        IN /\ Len(transactions') = Len(transactions) + 1
           /\ SubSeq(transactions', 1, Len(transactions)) = transactions
           /\ r.action = "sell"
           /\ r.date = last_sell_time'
           /\ m \in {speed, balance, lot.amount}
           /\ m <= speed /\ m <= balance /\ m <= lot.amount
           /\ r.profit = m * (r.price + tax_fixed_returnable) * efficiency
                           - m * (lot.price + tax_fixed_returnable) * EffDen
           /\ total_profit' = total_profit + r.profit
           /\ balance' = balance - m
           /\ r.balance = balance'
           /\ buy_log' = Tail(buy_log)]_vars

\* two lots were pending, of different amounts and prices; the sell matched less
\* than the balance and the younger lot is still there
C15_Witness ==
    /\ pc = "engine"
    /\ Len(transactions) = 3
    /\ last_record.action = "sell"
    /\ Len(buy_log) = 1
    /\ buy_log[1].time = transactions[2].date
    /\ transactions[1].price # transactions[2].price
    /\ transactions[1].amount_kwh < transactions[2].amount_kwh
    /\ last_record.amount_kwh = transactions[1].amount_kwh
    /\ balance > 0

\* C16: a sell call with a balance of zero or with no pending lot appends no
\* record and leaves balance, counters, profits, month and lots as they were
C16_SellNoOp ==
    [][(SellCall /\ (balance = 0 \/ buy_log = <<>>)) =>
        UNCHANGED <<transactions, balance, cycles, capacity_cycles, total_profit,
                    monthly_profit, month_current, buy_log>>]_vars

\* sell_energy was called with the balance at zero while a lot was pending: the
\* time of the call is later than every record and the lot is still there
C16_Witness ==
    /\ pc = "engine"
    /\ balance = 0
    /\ buy_log # <<>>
    /\ last_sell_time # None
    /\ \A i \in Records : transactions[i].date < last_sell_time

\* the rows of the day the loop of run() is at
day_rows(d) == {t \in DOMAIN data : DayOf(t) = d}

\* a pair of rows that qualifies: the sell later than the buy, the unit profit at
\* least profit_min
qualifies(b, s) ==
    /\ s > b
    /\ (data[s] + tax_fixed_returnable) * efficiency
          - (data[b] + tax_fixed_returnable) * EffDen >= profit_min * EffDen

\* C17: every qualifying pair of the day that find_best_trade does not return
\* has its buy or its sell timestamp in a returned pair of at least its unit
\* profit
C17_GreedyMaximal ==
    [][ReturnStep =>
         \A b, s \in day_rows(date') :
            (/\ qualifies(b, s)
             /\ \A i \in 1..Len(best_trades') :
                   ~(best_trades'[i].buy = b /\ best_trades'[i].sell = s))
            => \E i \in 1..Len(best_trades') :
                  LET r == best_trades'[i] IN
                  /\ {b, s} \cap {r.buy, r.sell} # {}
                  /\ r.profit >= (data[s] + tax_fixed_returnable) * efficiency
                                   - (data[b] + tax_fixed_returnable) * EffDen]_vars

\* two pairs are returned, and a qualifying pair of a higher unit profit than
\* the second one is left out
C17_Witness ==
    /\ pc = "trades"
    /\ transactions = <<>>
    /\ Len(best_trades) = 2
    /\ \E b, s \in day_rows(date) :
          /\ qualifies(b, s)
          /\ \A i \in 1..2 : ~(best_trades[i].buy = b /\ best_trades[i].sell = s)
          /\ (data[s] + tax_fixed_returnable) * efficiency
                - (data[b] + tax_fixed_returnable) * EffDen > best_trades[2].profit

\* C18: the ledger of run() is in chronological order: every record is strictly
\* later than the record appended before it
C18_LedgerChronological ==
    \A i \in Records :
        i > 1 => transactions[i].date > transactions[i - 1].date

\* C19: under a valid configuration the ledger is a sequence of pairs, a buy of
\* min(speed, capacity) > 0 and then a sell of the same amount that brings the
\* balance to zero; between pairs the battery is empty and no lot is pending,
\* and inside a pair it holds min(speed, capacity)
C19_PairsBuyAndSellSameAmount ==
    valid_configuration =>
        /\ balance <= min2(speed, capacity)
        /\ pc # "sell" =>
              balance = 0 /\ buy_log = <<>> /\ Len(transactions) % 2 = 0
        /\ pc = "sell" =>
              /\ Len(transactions) % 2 = 1
              /\ balance = min2(speed, capacity)
              /\ Len(buy_log) = 1
        /\ \A i \in Records :
              LET r == transactions[i] IN
              IF i % 2 = 1
              THEN /\ r.action = "buy"
                   /\ r.amount_kwh = min2(speed, capacity)
                   /\ r.amount_kwh > 0
                   /\ r.balance = r.amount_kwh
              ELSE /\ r.action = "sell"
                   /\ r.amount_kwh = transactions[i - 1].amount_kwh
                   /\ r.date > transactions[i - 1].date
                   /\ r.balance = 0

\* a run of two executed pairs has ended, with a lossy battery that is slower
\* than it is large
C19_Witness ==
    /\ valid_configuration
    /\ pc = "done"
    /\ Len(transactions) = 4
    /\ speed < capacity
    /\ efficiency < EffDen
    /\ balance = 0
    /\ buy_log = <<>>

\* C20: the lot a sell of run() matches is the lot its own pair has just bought,
\* so the profit of the sell record is its amount times the unit profit of the
\* pair in the list of find_best_trade, which is at least its amount times
\* profit_min
C20_SellProfitIsPairProfit ==
    [][SellRecorded =>
         LET tr == Head(best_trades)
             lot == Head(buy_log)
             r == last_record'
         IN /\ lot.time = tr.buy
            /\ lot.time = last_record.date /\ last_record.action = "buy"
            /\ lot.price = data[tr.buy]
            /\ r.date = tr.sell
            /\ r.profit = r.amount_kwh * tr.profit
            /\ r.profit >= r.amount_kwh * profit_min * EffDen]_vars

\* two pairs were sold under a tax and a lossy battery, the second one at exactly
\* the minimum profit and the first one above it
C20_Witness ==
    /\ Len(transactions) = 4
    /\ tax_fixed_returnable > 0
    /\ efficiency < EffDen
    /\ transactions[4].amount_kwh > 0
    /\ transactions[4].profit = transactions[4].amount_kwh * profit_min * EffDen
    /\ transactions[2].profit > transactions[2].amount_kwh * profit_min * EffDen

====
